---- MODULE Spec2Model ----
(***************************************************************************)
(* State-machine model of TestMonitor (src/scripts/utils/test-monitor.js). *)
(*                                                                         *)
(* One action per host task: a public method call, a DOM event dispatch,   *)
(* a timer firing, or the settlement of a browser promise (getUserMedia,   *)
(* FaceDetector.detect).  A continuation that is separated from the code   *)
(* before it only by an await on an already settled promise runs in the    *)
(* same task (microtask checkpoint), so it belongs to the same action.     *)
(*                                                                         *)
(* Strings that the code searches with String.includes are sequences of    *)
(* words; includes is the contiguous-subsequence test on them.             *)
(* Timestamps of violations are not modelled (no claim reads them).        *)
(***************************************************************************)
EXTENDS Integers, Sequences, FiniteSets, TLC

\* ------------------------------------------------------------------ bounds
MaxSteps == 6      \* host tasks (calls, events, timers, promise settlements) per behaviour

\* ------------------------------------------------------- program constants
alertThreshold == 3
HeadDeltaX == 100
HeadDeltaY == 50
BrightnessDelta == 20

AutoSubmitReason == "Multiple violations detected"

\* ------------------------------------------------------- violation types
TabSwitchType == <<"Tab", "switch", "detected">>
WindowBlurType == <<"Window", "lost", "focus">>
ExitFullscreenType == <<"Exited", "fullscreen", "mode">>
NoFaceType == <<"No", "face", "detected", "-", "looking", "away">>
HeadMovementType == <<"Suspicious", "head", "movement", "detected">>
MovementType == <<"Significant", "movement", "detected">>
RightClickType == <<"Right-click", "attempted">>
BlockedKeyType(key) == <<"Blocked", "key", "pressed:", key>>

\* ------------------------------------------------------------------ state
VARIABLES
    options,             \* constructor options (the four enable* flags)
    faceDetectorApi,     \* environment: 'FaceDetector' in window, and whether its constructor works
    isActive,
    violations,          \* this.violations: sequence of [type, severity]
    stream,              \* this.stream: "null", or the state of its tracks: "live" / "stopped"
    video,               \* this.video: "null", "attached" (in the document) or "removed"
    faceDetectionModel,  \* TRUE iff this.faceDetectionModel is set
    lastFacePosition,    \* <<>> (null) or <<[x, y]>>
    lastBrightness,      \* <<>> (undefined) or <<b>>
    registrations,       \* number of times setupEventListeners has added its listeners
    pendingInit,         \* initialize() calls waiting for getUserMedia
    initDone,            \* initialize() calls that have returned
    initResult,          \* the initialize() call that returned in the last step (NoResult if none did):
                         \* what failed, the value returned, the onCameraError calls it made
    timers,              \* pending setTimeout(() => this.startCameraAnalysis(), 1000)
    detecting,           \* startCameraAnalysis calls waiting for faceDetectionModel.detect
    signals,             \* testAutoSubmit events dispatched since the last startMonitoring
    outbound,            \* the onViolation and dispatchEvent calls made since the last startMonitoring,
                         \* in order, each with the contents of this.violations when it was made
    lastEvent,           \* the DOM event dispatched in the last step (NoEvent if none was): its type,
                         \* whether the monitor was active, its defaultPrevented flag after dispatch
    lastTask,            \* the host task run in the last step
    steps                \* host tasks run so far

vars == <<options, faceDetectorApi, isActive, violations, stream, video,
          faceDetectionModel, lastFacePosition, lastBrightness, registrations,
          pendingInit, initDone, initResult, timers, detecting, signals,
          outbound, lastEvent, lastTask, steps>>

NoResult == [settled |-> FALSE, failed |-> "none", returned |-> FALSE, onCameraError |-> <<>>]
NoEvent == [type |-> "none", active |-> FALSE, defaultPrevented |-> FALSE]

\* the monitor object as one record, so that each method is an operator on it
This ==
    [isActive |-> isActive, violations |-> violations, stream |-> stream,
     video |-> video, faceDetectionModel |-> faceDetectionModel,
     lastFacePosition |-> lastFacePosition, lastBrightness |-> lastBrightness,
     registrations |-> registrations, pendingInit |-> pendingInit,
     initDone |-> initDone, initResult |-> NoResult, timers |-> timers,
     detecting |-> detecting, signals |-> signals, outbound |-> outbound]

Commit(m) ==
    /\ isActive' = m.isActive
    /\ violations' = m.violations
    /\ stream' = m.stream
    /\ video' = m.video
    /\ faceDetectionModel' = m.faceDetectionModel
    /\ lastFacePosition' = m.lastFacePosition
    /\ lastBrightness' = m.lastBrightness
    /\ registrations' = m.registrations
    /\ pendingInit' = m.pendingInit
    /\ initDone' = m.initDone
    /\ initResult' = m.initResult
    /\ timers' = m.timers
    /\ detecting' = m.detecting
    /\ signals' = m.signals
    /\ outbound' = m.outbound

\* every action is one host task
Task(name) == steps < MaxSteps /\ steps' = steps + 1 /\ lastTask' = name

\* ------------------------------------------------------------------ inputs
\* getUserMedia rejections
MediaErrors == {"Permission denied"}
\* the error a failing FaceDetector constructor throws
DetectorError == [message |-> <<"FaceDetector", "failed">>]

\* detect() results: at most one face (maxDetectedFaces = 1), as bounding boxes
FaceBoxes ==
    { [x |-> 60, y |-> 60, width |-> 80, height |-> 80],
      [x |-> 100, y |-> 60, width |-> 80, height |-> 80],
      [x |-> 210, y |-> 60, width |-> 80, height |-> 80],
      [x |-> 60, y |-> 120, width |-> 80, height |-> 80] }
FaceResults == {<<>>} \cup { <<[boundingBox |-> b]>> : b \in FaceBoxes }

\* getImageData results: RGBA bytes of a two-pixel frame
Frames ==
    { <<0, 0, 0, 255, 0, 0, 0, 255>>,
      <<30, 30, 30, 255, 30, 30, 30, 255>>,
      <<90, 60, 30, 255, 40, 40, 40, 255>> }

\* keydown events of the lifecycle specification
KeyEvents ==
    { [key |-> "Escape", ctrlKey |-> FALSE, shiftKey |-> FALSE, altKey |-> FALSE],
      [key |-> "c", ctrlKey |-> TRUE, shiftKey |-> FALSE, altKey |-> FALSE],
      [key |-> "c", ctrlKey |-> FALSE, shiftKey |-> FALSE, altKey |-> FALSE] }

\* ------------------------------------------------- classifier and recorder
\* String.prototype.includes on word sequences
Includes(type, part) ==
    \E i \in 0..(Len(type) - Len(part)) : SubSeq(type, i + 1, i + Len(part)) = part

highSeverity == {TabSwitchType, ExitFullscreenType, WindowBlurType}
mediumSeverity == {<<"No", "face", "detected">>, <<"Suspicious", "head", "movement">>}

\* the classifier testing the medium table before the high table
getViolationSeverityMediumFirst(type) ==
    IF \E violation \in mediumSeverity : Includes(type, violation) THEN "medium"
    ELSE IF \E violation \in highSeverity : Includes(type, violation) THEN "high"
    ELSE "low"

getViolationSeverity(type) ==
    IF \E violation \in highSeverity : Includes(type, violation) THEN "high"
    ELSE IF \E violation \in mediumSeverity : Includes(type, violation) THEN "medium"
    ELSE "low"

\* dispatches the testAutoSubmit event; `at` is the length of the log when it is dispatched
triggerAutoSubmit(m) ==
    [m EXCEPT !.signals = Append(@, [reason |-> AutoSubmitReason, at |-> Len(m.violations)]),
              !.outbound = Append(@, [call |-> "dispatchEvent", violation |-> <<>>,
                                      log |-> m.violations])]

\* this.options.onViolation(violation, this.violations)
onViolation(m, violation) ==
    [m EXCEPT !.outbound = Append(@, [call |-> "onViolation", violation |-> <<violation>>,
                                      log |-> m.violations])]

\* what detail.violations of the j-th testAutoSubmit event of the session holds when it is
\* read in the current state: the event carries this.violations itself, not a copy
detailViolations(j) == violations

\* recordViolation with the threshold test written as > instead of >=
recordViolationStrictThreshold(m, type) ==
    LET violation == [type |-> type, severity |-> getViolationSeverity(type)]
        m1 == onViolation([m EXCEPT !.violations = Append(@, violation)], violation)
    IN  IF Len(m1.violations) > alertThreshold THEN triggerAutoSubmit(m1) ELSE m1

\* recordViolation calling onViolation before it pushes the violation
recordViolationNotifyFirst(m, type) ==
    LET violation == [type |-> type, severity |-> getViolationSeverity(type)]
        m1 == [onViolation(m, violation) EXCEPT !.violations = Append(@, violation)]
    IN  IF Len(m1.violations) >= alertThreshold THEN triggerAutoSubmit(m1) ELSE m1

recordViolation(m, type) ==
    LET violation == [type |-> type, severity |-> getViolationSeverity(type)]
        m1 == onViolation([m EXCEPT !.violations = Append(@, violation)], violation)
    IN  IF Len(m1.violations) >= alertThreshold THEN triggerAutoSubmit(m1) ELSE m1

RECURSIVE recordAll(_, _)
\* one recordViolation call per element of types, in order
recordAll(m, types) ==
    IF types = <<>> THEN m
    ELSE recordAll(recordViolation(m, Head(types)), Tail(types))

\* ---------------------------------------------------------- summary reporter
RECURSIVE reduceCountNoIncrement(_, _, _)
\* the reducer writing acc[key] = 1 instead of adding one to the old count
reduceCountNoIncrement(log, field, acc) ==
    IF log = <<>> THEN acc
    ELSE LET k == Head(log)[field]
         IN  reduceCountNoIncrement(Tail(log), field,
                                    [x \in DOMAIN acc \cup {k} |-> IF x = k THEN 1 ELSE acc[x]])

RECURSIVE reduceCount(_, _, _)
\* log.reduce((acc, v) => { acc[v[field]] = (acc[v[field]] || 0) + 1; return acc }, acc)
reduceCount(log, field, acc) ==
    IF log = <<>> THEN acc
    ELSE LET k == Head(log)[field]
             old == IF k \in DOMAIN acc THEN acc[k] ELSE 0
         IN  reduceCount(Tail(log), field,
                         [x \in DOMAIN acc \cup {k} |-> IF x = k THEN old + 1 ELSE acc[x]])

getViolationSummary(m) ==
    [total |-> Len(m.violations),
     byType |-> reduceCount(m.violations, "type", <<>>),
     bySeverity |-> reduceCount(m.violations, "severity", <<>>),
     violations |-> m.violations]

\* ------------------------------------------------------------- initialize
setupEventListeners(m) == [m EXCEPT !.registrations = @ + 1]

\* the catch block of initialize without its onCameraError call
initializeCatchSilent(m, failed, error) ==
    [m EXCEPT !.initDone = @ + 1,
              !.initResult = [settled |-> TRUE, failed |-> failed, returned |-> FALSE,
                              onCameraError |-> <<>>]]

\* the catch block of initialize: onCameraError(error); return false
initializeCatch(m, failed, error) ==
    [m EXCEPT !.initDone = @ + 1,
              !.initResult = [settled |-> TRUE, failed |-> failed, returned |-> FALSE,
                              onCameraError |-> <<error>>]]

\* setupEventListeners(); return true
initializeFinish(m) ==
    [setupEventListeners(m) EXCEPT
        !.initDone = @ + 1,
        !.initResult = [settled |-> TRUE, failed |-> "none", returned |-> TRUE,
                        onCameraError |-> <<>>]]

\* initialize() up to its first real suspension, the getUserMedia call
initializeCall(m) ==
    IF options.enableCameraMonitoring
    THEN [m EXCEPT !.pendingInit = @ + 1]
    ELSE initializeFinish(m)

loadFaceDetection(m) ==
    IF faceDetectorApi = "ok" THEN [m EXCEPT !.faceDetectionModel = TRUE] ELSE m

\* getUserMedia resolved: the rest of setupCamera, loadFaceDetection, the rest of initialize
getUserMediaResolved(m) ==
    LET m1 == [m EXCEPT !.pendingInit = @ - 1, !.stream = "live", !.video = "attached"]
    IN  IF faceDetectorApi = "throws"
        THEN initializeCatch(m1, "detector", DetectorError)
        ELSE initializeFinish(loadFaceDetection(m1))

\* getUserMedia rejected: setupCamera rethrows, initialize catches
getUserMediaRejected(m, cause) ==
    initializeCatch([m EXCEPT !.pendingInit = @ - 1], "camera",
                    [message |-> <<"Camera", "access", "denied:", cause>>])

\* ------------------------------------------------------ sampler and analyzer
RECURSIVE sumLuma(_, _)
\* for (i = 0; i < pixels.length; i += 4) brightness += (p[i] + p[i+1] + p[i+2]) / 3
sumLuma(pixels, i) ==
    IF i > Len(pixels) THEN 0
    ELSE (pixels[i] + pixels[i + 1] + pixels[i + 2]) \div 3 + sumLuma(pixels, i + 4)

meanBrightness(pixels) == sumLuma(pixels, 1) \div (Len(pixels) \div 4)

Abs(n) == IF n < 0 THEN -n ELSE n

\* JavaScript truthiness of this.lastBrightness
Truthy(lb) == lb # <<>> /\ lb[1] # 0

\* analyzeFacePosition without a detection model (runs to completion synchronously)
analyzeFallback(m, imageData) ==
    LET brightness == meanBrightness(imageData)
        m1 == IF Truthy(m.lastBrightness)
                 /\ Abs(brightness - m.lastBrightness[1]) > BrightnessDelta
              THEN recordViolation(m, MovementType)
              ELSE m
    IN  [m1 EXCEPT !.lastBrightness = <<brightness>>]

analyzeFacesBothAxes(m, faces) ==   \* mutant: both deltas must exceed their limits
    IF Len(faces) = 0 THEN recordViolation(m, NoFaceType)
    ELSE LET face == faces[1]
             currentPosition ==
                 [x |-> face.boundingBox.x + face.boundingBox.width \div 2,
                  y |-> face.boundingBox.y + face.boundingBox.height \div 2]
             m1 == IF m.lastFacePosition # <<>>
                      /\ (Abs(currentPosition.x - m.lastFacePosition[1].x) > HeadDeltaX
                          /\ Abs(currentPosition.y - m.lastFacePosition[1].y) > HeadDeltaY)
                   THEN recordViolation(m, HeadMovementType)
                   ELSE m
         IN  [m1 EXCEPT !.lastFacePosition = <<currentPosition>>]

\* analyzeFacePosition after detect() resolved with faces
analyzeFaces(m, faces) ==
    IF Len(faces) = 0 THEN recordViolation(m, NoFaceType)
    ELSE LET face == faces[1]
             currentPosition ==
                 [x |-> face.boundingBox.x + face.boundingBox.width \div 2,
                  y |-> face.boundingBox.y + face.boundingBox.height \div 2]
             m1 == IF m.lastFacePosition # <<>>
                      /\ (Abs(currentPosition.x - m.lastFacePosition[1].x) > HeadDeltaX
                          \/ Abs(currentPosition.y - m.lastFacePosition[1].y) > HeadDeltaY)
                   THEN recordViolation(m, HeadMovementType)
                   ELSE m
         IN  [m1 EXCEPT !.lastFacePosition = <<currentPosition>>]

rescheduleAlways(m) == [m EXCEPT !.timers = @ + 1]   \* mutant: no isActive test

\* the end of startCameraAnalysis: if (this.isActive) setTimeout(...)
reschedule(m) == IF m.isActive THEN [m EXCEPT !.timers = @ + 1] ELSE m

\* startCameraAnalysis up to its first real suspension (the detect call), or to its end
startCameraAnalysis(m, imageData) ==
    IF ~m.isActive \/ m.video = "null" THEN m
    ELSE IF m.faceDetectionModel THEN [m EXCEPT !.detecting = @ + 1]
    ELSE reschedule(analyzeFallback(m, imageData))

timerFired(m, imageData) == startCameraAnalysis([m EXCEPT !.timers = @ - 1], imageData)

detectResolved(m, faces) == reschedule(analyzeFaces([m EXCEPT !.detecting = @ - 1], faces))

detectRejectedHalts(m) == [m EXCEPT !.detecting = @ - 1]   \* mutant: the rejection ends the loop

\* detect() rejected: analyzeFacePosition catches and logs
detectRejected(m) == reschedule([m EXCEPT !.detecting = @ - 1])

\* ------------------------------------------------------------ start and stop
\* signals and outbound restart with the session: they list the calls of the current session
startMonitoring(m, imageData) ==
    LET m1 == [m EXCEPT !.isActive = TRUE, !.violations = <<>>, !.signals = <<>>,
                        !.outbound = <<>>]
    IN  IF options.enableCameraMonitoring /\ m1.video # "null"
        THEN startCameraAnalysis(m1, imageData)
        ELSE m1

\* stopMonitoring returning early when the monitor is not active
stopMonitoringOnlyWhenActive(m) ==
    IF ~m.isActive THEN m
    ELSE [m EXCEPT !.isActive = FALSE,
                   !.stream = IF @ = "null" THEN "null" ELSE "stopped",
                   !.video = IF @ = "null" THEN "null" ELSE "removed"]

stopMonitoring(m) ==
    [m EXCEPT !.isActive = FALSE,
              !.stream = IF @ = "null" THEN "null" ELSE "stopped",
              !.video = IF @ = "null" THEN "null" ELSE "removed"]

\* ------------------------------------------------------------ DOM listeners
Copies(n, type) == [i \in 1..n |-> type]

\* the number of listeners setupEventListeners has added for a listener guarded by `enabled`
Listeners(enabled) == IF enabled THEN registrations ELSE 0

blockedKeys == {"Escape", "F11", "F12", "PrintScreen"}

blockedCombos(event) ==
    \/ event.ctrlKey /\ event.key = "c"
    \/ event.ctrlKey /\ event.key = "v"
    \/ event.ctrlKey /\ event.shiftKey /\ event.key = "I"
    \/ event.altKey /\ event.key = "Tab"

\* what the listeners of one dispatched event do together: the violation types they
\* record, in order, and whether one of them calls event.preventDefault()
visibilityListeners(hidden) ==
    [records |-> IF hidden /\ isActive
                 THEN Copies(Listeners(options.enableTabSwitchDetection), TabSwitchType)
                 ELSE <<>>,
     prevented |-> FALSE]

blurListeners ==
    [records |-> IF isActive
                 THEN Copies(Listeners(options.enableTabSwitchDetection), WindowBlurType)
                 ELSE <<>>,
     prevented |-> FALSE]

fullscreenListeners(fullscreenElement) ==
    [records |-> IF ~fullscreenElement /\ isActive
                 THEN Copies(Listeners(options.enableFullscreenMonitoring), ExitFullscreenType)
                 ELSE <<>>,
     prevented |-> FALSE]

keydownListeners(event) ==
    LET n == Listeners(options.enableKeyboardMonitoring)
        hit == isActive /\ (event.key \in blockedKeys \/ blockedCombos(event))
    IN  [records |-> IF hit THEN Copies(n, BlockedKeyType(event.key)) ELSE <<>>,
         prevented |-> hit /\ n > 0]

\* the contextmenu listener without its isActive test
contextmenuListenersUngated ==
    [records |-> Copies(Listeners(TRUE), RightClickType),
     prevented |-> Listeners(TRUE) > 0]

contextmenuListeners ==
    [records |-> IF isActive THEN Copies(Listeners(TRUE), RightClickType) ELSE <<>>,
     prevented |-> isActive /\ Listeners(TRUE) > 0]

selectstartListeners ==
    [records |-> <<>>,
     prevented |-> isActive /\ Listeners(TRUE) > 0]

\* ----------------------------------------------------------------- actions
Env == <<options, faceDetectorApi>>

Call(name, m) == Task(name) /\ Commit(m) /\ lastEvent' = NoEvent /\ UNCHANGED Env

Dispatch(type, run) ==
    LET m == recordAll(This, run.records)
    IN  /\ Task("event")
        /\ Commit(m)
        /\ lastEvent' = [type |-> type, active |-> isActive, defaultPrevented |-> run.prevented]
        /\ UNCHANGED Env

Initialize == Call("initialize", initializeCall(This))

GetUserMediaResolve == pendingInit > 0 /\ Call("getUserMedia.resolve", getUserMediaResolved(This))

GetUserMediaReject ==
    pendingInit > 0 /\ \E cause \in MediaErrors : Call("getUserMedia.reject", getUserMediaRejected(This, cause))

StartMonitoring == \E imageData \in Frames : Call("startMonitoring", startMonitoring(This, imageData))

StopMonitoring == Call("stopMonitoring", stopMonitoring(This))

TimerFire == timers > 0 /\ \E imageData \in Frames : Call("timer", timerFired(This, imageData))

DetectResolve == detecting > 0 /\ \E faces \in FaceResults : Call("detect.resolve", detectResolved(This, faces))

DetectReject == detecting > 0 /\ Call("detect.reject", detectRejected(This))

VisibilityChange == \E hidden \in BOOLEAN : Dispatch("visibilitychange", visibilityListeners(hidden))

Blur == Dispatch("blur", blurListeners)

FullscreenChange ==
    \E fullscreenElement \in BOOLEAN :
        Dispatch("fullscreenchange", fullscreenListeners(fullscreenElement))

Keydown == \E event \in KeyEvents : Dispatch("keydown", keydownListeners(event))

ContextMenu == Dispatch("contextmenu", contextmenuListeners)

SelectStart == Dispatch("selectstart", selectstartListeners)

\* recordViolation called directly on the fresh monitor with an arbitrary type string
RecordDirect(type) ==
    /\ violations = <<>>
    /\ Call("recordViolation", recordViolation(This, type))

\* the state after the constructor, for every configuration and environment
Init ==
    /\ options \in [enableCameraMonitoring : BOOLEAN, enableTabSwitchDetection : BOOLEAN,
                    enableFullscreenMonitoring : BOOLEAN, enableKeyboardMonitoring : BOOLEAN]
    /\ faceDetectorApi \in {"absent", "ok", "throws"}
    \* the code looks for FaceDetector only when camera monitoring is enabled
    /\ ~options.enableCameraMonitoring => faceDetectorApi = "absent"
    /\ isActive = FALSE
    /\ violations = <<>>
    /\ stream = "null"
    /\ video = "null"
    /\ faceDetectionModel = FALSE
    /\ lastFacePosition = <<>>
    /\ lastBrightness = <<>>
    /\ registrations = 0
    /\ pendingInit = 0
    /\ initDone = 0
    /\ initResult = NoResult
    /\ timers = 0
    /\ detecting = 0
    /\ signals = <<>>
    /\ outbound = <<>>
    /\ lastEvent = NoEvent
    /\ lastTask = "none"
    /\ steps = 0

Next ==
    \/ Initialize
    \/ GetUserMediaResolve
    \/ GetUserMediaReject
    \/ StartMonitoring
    \/ StopMonitoring
    \/ TimerFire
    \/ DetectResolve
    \/ DetectReject
    \/ VisibilityChange
    \/ Blur
    \/ FullscreenChange
    \/ Keydown
    \/ ContextMenu
    \/ SelectStart

Spec == Init /\ [][Next]_vars

\* ---- the recorder and classifier alone, on type strings put together from phrases
MaxPhrases == 3    \* phrases per type string

Phrases ==
    highSeverity \cup mediumSeverity
        \cup {<<"detected">>, <<"Right-click", "attempted">>, <<"Tab", "switch">>}

RECURSIVE Concatenations(_)
Concatenations(n) ==
    IF n = 0 THEN {<<>>}
    ELSE LET shorter == Concatenations(n - 1)
         IN  shorter \cup { t \o p : t \in shorter, p \in Phrases }

TypeStrings == Concatenations(MaxPhrases)

InitClassify ==
    /\ Init
    /\ options = [enableCameraMonitoring |-> FALSE, enableTabSwitchDetection |-> TRUE,
                  enableFullscreenMonitoring |-> TRUE, enableKeyboardMonitoring |-> TRUE]

NextClassify == \E type \in TypeStrings : RecordDirect(type)

SpecClassify == InitClassify /\ [][NextClassify]_vars

\* ---- the keydown listener on the whole key table, camera monitoring off
KeyNames == {"Escape", "F11", "F12", "PrintScreen", "c", "v", "I", "Tab", "C", "i", "a"}

AllKeyEvents == [key : KeyNames, ctrlKey : BOOLEAN, shiftKey : BOOLEAN, altKey : BOOLEAN]

KeydownAny == \E event \in AllKeyEvents : Dispatch("keydown", keydownListeners(event))

InitKeyboard ==
    /\ Init
    /\ ~options.enableCameraMonitoring
    /\ options.enableKeyboardMonitoring

NextKeyboard ==
    \/ Initialize
    \/ StartMonitoring
    \/ StopMonitoring
    \/ KeydownAny

SpecKeyboard == InitKeyboard /\ [][NextKeyboard]_vars

\* ---- the sampler alone, camera monitoring on: pending timers fire and pending
\* detect() calls settle; once the session is stopped they do so outside the step budget
Settle(name, m) ==
    /\ lastTask' = name
    /\ steps' = steps
    /\ Commit(m)
    /\ lastEvent' = NoEvent
    /\ UNCHANGED Env

TimerFireStopped ==
    /\ ~isActive
    /\ timers > 0
    /\ \E imageData \in Frames : Settle("timer", timerFired(This, imageData))

DetectSettleStopped ==
    /\ ~isActive
    /\ detecting > 0
    /\ \/ \E faces \in FaceResults : Settle("detect.resolve", detectResolved(This, faces))
       \/ Settle("detect.reject", detectRejected(This))

InitSampler ==
    /\ Init
    /\ options = [enableCameraMonitoring |-> TRUE, enableTabSwitchDetection |-> FALSE,
                  enableFullscreenMonitoring |-> FALSE, enableKeyboardMonitoring |-> FALSE]

NextSampler ==
    \/ Initialize
    \/ GetUserMediaResolve
    \/ StartMonitoring
    \/ StopMonitoring
    \/ TimerFire
    \/ DetectResolve
    \/ DetectReject
    \/ TimerFireStopped
    \/ DetectSettleStopped

\* the event loop runs every due timer, and every detect() promise settles
SpecSampler ==
    /\ InitSampler
    /\ [][NextSampler]_vars
    /\ WF_vars(TimerFireStopped)
    /\ WF_vars(DetectSettleStopped)

\* ------------------------------------------------------------------ claims
Max(a, b) == IF a > b THEN a ELSE b

\* C1: a violation is appended to the log only while active is true, under every
\* interleaving; in particular a detect() call in flight when stopMonitoring ran
\* appends nothing when it completes.  (The log changes only by the reset in
\* startMonitoring and by appends, so a changed, non-empty log is an append.)
C1_AppendOnlyWhileActive ==
    [][(violations' # violations /\ violations' # <<>>) => isActive']_vars

\* C2: a listener event dispatched while active is false leaves the violation log
\* unchanged, raises no auto-submit signal and does not have its default prevented.
C2_InactiveListenersInert ==
    [][(lastEvent'.type # "none" /\ ~lastEvent'.active)
        => (/\ violations' = violations
            /\ signals' = signals
            /\ ~lastEvent'.defaultPrevented)]_vars

\* an event reached its listeners while the monitor was inactive after a session
\* that had recorded violations
C2_Witness ==
    /\ lastEvent.type = "contextmenu"
    /\ ~lastEvent.active
    /\ registrations > 0
    /\ violations # <<>>

\* C3: with alertThreshold = 3 the k-th violation of a session raises an auto-submit
\* signal iff k >= 3, and exactly one: after n violations max(0, n - 2) signals have
\* been raised, the j-th of them by violation j + 2.
C3_SignalPerViolationFromThird ==
    /\ Len(signals) = Max(0, Len(violations) - 2)
    /\ \A j \in 1..Len(signals) :
           signals[j] = [reason |-> "Multiple violations detected", at |-> j + 2]

\* four violations recorded in one session: the third and the fourth each raised a signal
C3_Witness == Len(violations) = 4 /\ Len(signals) = 2

\* C4: startMonitoring, called in any reachable state, leaves active = true and the
\* violation log empty immediately after it returns.
C4_StartLeavesLogEmpty ==
    lastTask = "startMonitoring" => (isActive /\ violations = <<>>)

Records(run) == run.records # <<>>

EscapeKey == [key |-> "Escape", ctrlKey |-> FALSE, shiftKey |-> FALSE, altKey |-> FALSE]

\* C6: initialize registers the enabled listeners also when camera acquisition fails:
\* once initialize has returned with the camera acquisition failed (no stream was ever
\* acquired) and startMonitoring has then run, a visibility, blur, fullscreen-exit,
\* blocked-key or context-menu event records its violation.
C6_ListenersDespiteCameraFailure ==
    (/\ options.enableCameraMonitoring
     /\ initDone > 0
     /\ pendingInit = 0
     /\ stream = "null"
     /\ lastTask = "startMonitoring"
     /\ isActive)
    => (/\ options.enableTabSwitchDetection
            => (Records(visibilityListeners(TRUE)) /\ Records(blurListeners))
        /\ options.enableFullscreenMonitoring => Records(fullscreenListeners(FALSE))
        /\ options.enableKeyboardMonitoring => Records(keydownListeners(EscapeKey))
        /\ Records(contextmenuListeners))

\* C7: an initialize whose camera acquisition fails calls onCameraError exactly once,
\* with the error, and returns false; an initialize in which nothing fails returns
\* true and never calls onCameraError.  (initialize settles by returning: its catch
\* block encloses everything it does.)
C7_CameraFailureReportedOnce ==
    initResult.settled =>
        /\ initResult.failed = "camera" =>
               /\ initResult.returned = FALSE
               /\ \E cause \in MediaErrors :
                      initResult.onCameraError
                          = <<[message |-> <<"Camera", "access", "denied:", cause>>]>>
        /\ initResult.failed = "none" =>
               /\ initResult.returned = TRUE
               /\ initResult.onCameraError = <<>>

\* an initialize has just returned after getUserMedia rejected
C7_Witness == initResult.settled /\ initResult.failed = "camera" /\ lastTask = "getUserMedia.reject"

\* C8: whenever initialize returns failure the monitor holds no camera stream with
\* live tracks, also when the stream was acquired and a later step failed.
C8_FailedInitializeReleasesCamera ==
    (initResult.settled /\ ~initResult.returned) => stream # "live"

RECURSIVE SumCounts(_)
SumCounts(counts) ==
    IF DOMAIN counts = {} THEN 0
    ELSE LET k == CHOOSE x \in DOMAIN counts : TRUE
         IN  counts[k] + SumCounts([x \in DOMAIN counts \ {k} |-> counts[x]])

\* C9: getViolationSummary().total is the length of the log, and the byType counts
\* and the bySeverity counts each add up to total.
C9_SummaryTotals ==
    LET summary == getViolationSummary(This)
    IN  /\ summary.total = Len(violations)
        /\ SumCounts(summary.byType) = summary.total
        /\ SumCounts(summary.bySeverity) = summary.total

\* a log in which one type occurs twice next to a violation of another severity
C9_Witness ==
    /\ Len(violations) >= 3
    /\ \E i, j \in DOMAIN violations : i # j /\ violations[i].type = violations[j].type
    /\ \E i, j \in DOMAIN violations : violations[i].severity # violations[j].severity

\* the classification as the claim words it
HighPhrases ==
    {<<"Tab", "switch", "detected">>, <<"Exited", "fullscreen", "mode">>,
     <<"Window", "lost", "focus">>}
MediumPhrases == {<<"No", "face", "detected">>, <<"Suspicious", "head", "movement">>}

ClaimedSeverity(type) ==
    CASE \E p \in HighPhrases : Includes(type, p) -> "high"
      [] (\A p \in HighPhrases : ~Includes(type, p))
             /\ (\E p \in MediumPhrases : Includes(type, p)) -> "medium"
      [] OTHER -> "low"

\* C10: severity is a function of the type string with priority high > medium > low,
\* and every violation in the log carries that severity for its type.
C10_SeverityByPriority ==
    \A i \in DOMAIN violations :
        violations[i].severity = ClaimedSeverity(violations[i].type)

\* a recorded type that contains a medium phrase and a high phrase, in that order
C10_Witness ==
    \E i \in DOMAIN violations :
        /\ violations[i].type = <<"No", "face", "detected", "Window", "lost", "focus">>
        /\ violations[i].severity = "high"

\* the keys and combinations the claim lists
ClaimedBlocked(event) ==
    \/ event.key \in {"Escape", "F11", "F12", "PrintScreen"}
    \/ event.ctrlKey /\ event.key = "c"
    \/ event.ctrlKey /\ event.key = "v"
    \/ event.ctrlKey /\ event.shiftKey /\ event.key = "I"
    \/ event.altKey /\ event.key = "Tab"

\* what the claim says of one keydown dispatched while active, keyboard monitoring enabled
KeydownAsClaimed(event) ==
    IF ClaimedBlocked(event)
    THEN /\ lastEvent'.defaultPrevented
         /\ violations' = Append(violations,
                                 [type |-> <<"Blocked", "key", "pressed:", event.key>>,
                                  severity |-> "low"])
    ELSE /\ ~lastEvent'.defaultPrevented
         /\ violations' = violations

KeydownWhileMonitoring(event) ==
    /\ isActive
    /\ options.enableKeyboardMonitoring
    /\ initDone > 0
    /\ Dispatch("keydown", keydownListeners(event))

\* C11: while active with keyboard monitoring enabled (and initialize done), a keydown
\* of a blocked key or combination is prevented and records exactly one violation
\* "Blocked key pressed: <key>" of severity low; any other keydown is neither
\* prevented nor recorded.
C11_BlockedKeysRecordedOnce ==
    [][\A event \in AllKeyEvents : KeydownWhileMonitoring(event) => KeydownAsClaimed(event)]_vars

\* this step appends exactly one violation of the given type and nothing else
RecordsOne(type) ==
    /\ Len(violations') = Len(violations) + 1
    /\ SubSeq(violations', 1, Len(violations)) = violations
    /\ violations'[Len(violations')].type = type

Centre(box) == [x |-> box.x + box.width \div 2, y |-> box.y + box.height \div 2]

\* what the claim says of one completed native detection
DetectionAsClaimed(faces) ==
    IF Len(faces) = 0 THEN RecordsOne(NoFaceType)
    ELSE LET centre == Centre(faces[1].boundingBox)
         IN  /\ lastFacePosition' = <<centre>>
             /\ IF /\ lastFacePosition # <<>>
                   /\ \/ Abs(centre.x - lastFacePosition[1].x) > 100
                      \/ Abs(centre.y - lastFacePosition[1].y) > 50
                THEN RecordsOne(HeadMovementType)
                ELSE violations' = violations

\* C12: a native detection that resolves with one face records "Suspicious head
\* movement detected" exactly when a previous centre exists and |dx| > 100 or
\* |dy| > 50, and in both cases stores the current centre; a detection that resolves
\* with no face records "No face detected - looking away".
C12_NativeDetection ==
    [][\A faces \in FaceResults :
           (detecting > 0 /\ Call("detect.resolve", detectResolved(This, faces)))
               => DetectionAsClaimed(faces)]_vars

\* a head movement recorded by a detection that moved the stored centre to (250,100)
C12_Witness ==
    /\ lastTask = "detect.resolve"
    /\ lastFacePosition = <<[x |-> 250, y |-> 100]>>
    /\ violations # <<>>
    /\ violations[Len(violations)].type = HeadMovementType

\* C13: while active, after initialize has completed, every contextmenu event is
\* prevented and records "Right-click attempted", whatever the four enable flags are.
C13_ContextMenuAlwaysRecorded ==
    [][(/\ lastEvent'.type = "contextmenu"
        /\ lastEvent'.active
        /\ initDone > 0
        /\ pendingInit = 0)
        => (/\ lastEvent'.defaultPrevented
            /\ Len(violations') > Len(violations)
            /\ violations'[Len(violations')].type = RightClickType)]_vars

\* C14: a cycle is scheduled only by a step that leaves the session active; while
\* the session stays stopped no cycle is scheduled or started (a due timer returns at
\* once, an in-flight detection completes without rescheduling), and the pending
\* cycles eventually run out.
C14_SamplerStopsWhenInactive ==
    /\ [][/\ timers' > timers => isActive'
          /\ (~isActive /\ ~isActive')
              => (/\ timers' <= timers
                  /\ detecting' <= detecting
                  /\ lastTask' = "timer" => violations' = violations)]_vars
    /\ (~isActive) ~> (isActive \/ (timers = 0 /\ detecting = 0))

\* stopMonitoring came while a detection was in flight; the detection has completed
\* and nothing is scheduled
C14_Witness ==
    /\ lastTask = "detect.resolve"
    /\ ~isActive
    /\ initDone > 0
    /\ timers = 0
    /\ detecting = 0

\* a timer fires during an active session on the fallback path: one frame is analysed
FallbackCycle ==
    /\ lastTask' = "timer"
    /\ isActive
    /\ video # "null"
    /\ ~faceDetectionModel

\* C15: every frame analysed on the fallback path stores its mean luminance, and
\* records "Significant movement detected" exactly when a previous sample exists,
\* whatever its value, and differs from the current one by more than 20.
C15_FallbackMovement ==
    [][FallbackCycle
        => (/\ lastBrightness' # <<>>
            /\ IF /\ lastBrightness # <<>>
                  /\ Abs(lastBrightness'[1] - lastBrightness[1]) > 20
               THEN RecordsOne(MovementType)
               ELSE violations' = violations)]_vars

\* the same for a previous sample other than 0
C15_HoldsForNonzeroSamples ==
    [][(FallbackCycle /\ lastBrightness # <<0>>)
        => (/\ lastBrightness' # <<>>
            /\ IF /\ lastBrightness # <<>>
                  /\ Abs(lastBrightness'[1] - lastBrightness[1]) > 20
               THEN RecordsOne(MovementType)
               ELSE violations' = violations)]_vars

\* C16: a detect() call that fails appends no violation and raises no signal, and if
\* the session is still active when it fails the next cycle is scheduled.
C16_FailedFrameSwallowed ==
    [][lastTask' = "detect.reject"
        => (/\ violations' = violations
            /\ signals' = signals
            /\ detecting' = detecting - 1
            /\ isActive' => timers' = timers + 1)]_vars

\* a detection failed during an active session that had already recorded a violation
C16_Witness ==
    /\ lastTask = "detect.reject"
    /\ isActive
    /\ timers > 0
    /\ violations # <<>>

\* C17: the violations payload of every auto-submit signal of the session keeps the
\* contents the log had when the signal was raised, however the log grows afterwards
\* (stated for a monitor whose listeners are registered at most once).
C17_PayloadIsSnapshot ==
    registrations <= 1
        => \A j \in DOMAIN signals :
               detailViolations(j) = SubSeq(violations, 1, signals[j].at)

\* the outbound calls that recording the first k entries of the log one by one makes,
\* as the claim orders them
RECURSIVE CallsAsClaimed(_)
CallsAsClaimed(k) ==
    IF k = 0 THEN <<>>
    ELSE CallsAsClaimed(k - 1)
         \o <<[call |-> "onViolation", violation |-> <<violations[k]>>,
               log |-> SubSeq(violations, 1, k)]>>
         \o (IF k >= 3
             THEN <<[call |-> "dispatchEvent", violation |-> <<>>,
                     log |-> SubSeq(violations, 1, k)]>>
             ELSE <<>>)

\* C18: every recordViolation appends one violation carrying the classifier's severity,
\* then calls onViolation with it and the log that already includes it, then applies
\* the threshold; and apart from startMonitoring no step changes the log otherwise
\* than by appending to it.
C18_RecordOrder ==
    /\ [](/\ outbound = CallsAsClaimed(Len(violations))
          /\ \A k \in DOMAIN violations :
                 violations[k].severity = getViolationSeverity(violations[k].type))
    /\ [][lastTask' # "startMonitoring"
           => (/\ Len(violations') >= Len(violations)
               /\ SubSeq(violations', 1, Len(violations)) = violations)]_vars

\* a third violation has just been recorded, notified and followed by the signal
C18_Witness ==
    /\ Len(violations) = 3
    /\ Len(outbound) = 4
    /\ outbound[3].call = "onViolation"
    /\ outbound[3].violation = <<violations[3]>>
    /\ outbound[4].call = "dispatchEvent"

\* C19: at most one sampler cycle is pending (a timer) or running (a detection in
\* flight) at any time.
C19_SingleSamplerLoop == timers + detecting <= 1

\* C20: every listener is registered at most once, so one event dispatched while
\* active that records anything appends exactly one violation.
C20_ListenersRegisteredOnce ==
    [][/\ registrations' <= 1
       /\ (lastEvent'.type # "none" /\ lastEvent'.active /\ violations' # violations)
           => violations' = Append(violations, violations'[Len(violations')])]_vars

====
